---- MODULE Spec2Model ----
(***************************************************************************)
(* svg_minimal (src/src/lib.rs): a Path builder and a MinSVG document      *)
(* builder that serialize themselves to SVG text.                          *)
(*                                                                         *)
(* Rust Strings are TLA+ strings (\o is push_str, Len is len, SubSeq is a  *)
(* slice).  A Vec is a sequence.  An Option<T> is <<>> (None) or <<v>>     *)
(* (Some(v)).  Every method is an operator from the receiver (and the      *)
(* arguments) to the receiver after the call or to the returned String;    *)
(* every action is one call made by the program on its two builders.       *)
(***************************************************************************)
EXTENDS Integers, Sequences, FiniteSets, TLC

VARIABLES
    viewbox_arg,  \* the [usize;4] the program passes to MinSVG::new
    svg,          \* the program's MinSVG
    path,         \* the program's Path under construction, or Moved
    last,         \* the most recent call: [op |-> name, arg |-> argument]
    ret,          \* what that call returned: <<s>> for a String, <<>> for ()
    calls         \* number of mutating calls made so far

vars == <<viewbox_arg, svg, path, last, ret, calls>>

(***************************************************************************)
(* Bounds and inputs                                                       *)
(***************************************************************************)
MaxCalls == 4

RGB(r, g, b) == [tag |-> "RGB", r |-> r, g |-> g, b |-> b]
ColorNone == [tag |-> "None"]
ColorBlack == [tag |-> "Black"]
ColorBlue == [tag |-> "Blue"]
ColorGreen == [tag |-> "Green"]
ColorRed == [tag |-> "Red"]

Color == {ColorNone, ColorBlack, ColorBlue, ColorGreen, ColorRed, RGB(10, 100, 50)}

\* the colors the document-building program gives its Paths
FewColors == {ColorBlack, RGB(10, 100, 50)}
Widths == {3, 12}
RawRules == {"a 1 1 ", "<rect x=\"1\" "}
FewWidths == {12}
FewRawRules == {"<rect x=\"1\" "}

ViewBoxes == {<<0, 0, 100, 100>>, <<5, 7, 500, 30>>}
MovePoints == {<<0, 0>>}
LinePoints == {<<100, 100>>}
BezierPoints == {<<0, 50, 450, 500, 7, 12>>}
Namespaces == {"Some namespace", "<rect"}

(***************************************************************************)
(* format!("{}", n) for the unsigned integers (usize, u8): decimal digits, *)
(* most significant first, no padding.                                     *)
(***************************************************************************)
Digit(d) == SubSeq("0123456789", d + 1, d + 1)

RECURSIVE Dec(_)
Dec(n) == IF n < 10 THEN Digit(n) ELSE Dec(n \div 10) \o Digit(n % 10)

(***************************************************************************)
(* Vec<T>::push and Vec<T>::pop (pop on an empty Vec returns None and      *)
(* leaves the Vec empty).                                                  *)
(***************************************************************************)
VecPush(v, x) == Append(v, x)
VecPop(v) == IF Len(v) = 0 THEN v ELSE SubSeq(v, 1, Len(v) - 1)

(***************************************************************************)
(* impl Path                                                               *)
(***************************************************************************)
\* faulty variant: a fresh Path that starts with a black stroke
Path_new_black ==
    [rules |-> <<>>, stroke |-> [tag |-> "Black"], stroke_width |-> 0,
     fill |-> ColorNone]

Path_new ==
    [rules |-> <<>>, stroke |-> ColorNone, stroke_width |-> 0, fill |-> ColorNone]

\* The program's variable after its Path was moved into add_path.
Moved == [moved |-> TRUE]

Path_set_stroke_color(self, color) == [self EXCEPT !.stroke = color]
Path_set_stroke_width(self, width) == [self EXCEPT !.stroke_width = width]
\* faulty variant: the fill setter also overwrites the stroke
Path_set_fill_color_both(self, color) ==
    [self EXCEPT !.fill = color, !.stroke = color]
Path_set_fill_color(self, color) == [self EXCEPT !.fill = color]

Path_move_to(self, pos) ==
    [self EXCEPT !.rules =
        VecPush(@, "M " \o Dec(pos[1]) \o " " \o Dec(pos[2]) \o " ")]

Path_line_to(self, pos) ==
    [self EXCEPT !.rules =
        VecPush(@, "L " \o Dec(pos[1]) \o " " \o Dec(pos[2]) \o " ")]

Path_bezier(self, points) ==
    [self EXCEPT !.rules =
        VecPush(@, "C " \o Dec(points[1]) \o " " \o Dec(points[2]) \o ", "
                        \o Dec(points[3]) \o " " \o Dec(points[4]) \o ", "
                        \o Dec(points[5]) \o " " \o Dec(points[6]) \o " ")]

Path_close_path(self) == [self EXCEPT !.rules = VecPush(@, "Z ")]

\* faulty variant: undo removes the oldest rule instead of the newest
Path_undo_first(self) ==
    [self EXCEPT !.rules = IF Len(@) = 0 THEN @ ELSE Tail(@)]
Path_undo(self) == [self EXCEPT !.rules = VecPop(@)]

Path_add_rule_raw(self, rule) == [self EXCEPT !.rules = VecPush(@, rule)]

\* for rule in &self.rules { path.push_str(rule) }, from the String acc
RECURSIVE PushRules(_, _)
PushRules(acc, rules) ==
    IF rules = <<>> THEN acc ELSE PushRules(acc \o Head(rules), Tail(rules))

\* faulty variant: the RGB stroke is rendered with spaces after the commas
StrokeArm_spaced(c) ==
    CASE c.tag = "None"  -> "none\" "
      [] c.tag = "Black" -> "black\" "
      [] c.tag = "Blue"  -> "blue\" "
      [] c.tag = "Green" -> "green\" "
      [] c.tag = "Red"   -> "red\" "
      [] c.tag = "RGB"   ->
            "rgb(" \o Dec(c.r) \o ", " \o Dec(c.g) \o ", " \o Dec(c.b) \o ")\" "

\* match &self.stroke of Path::create
StrokeArm(c) ==
    CASE c.tag = "None"  -> "none\" "
      [] c.tag = "Black" -> "black\" "
      [] c.tag = "Blue"  -> "blue\" "
      [] c.tag = "Green" -> "green\" "
      [] c.tag = "Red"   -> "red\" "
      [] c.tag = "RGB"   ->
            "rgb(" \o Dec(c.r) \o "," \o Dec(c.g) \o "," \o Dec(c.b) \o ")\" "

\* match &self.fill of Path::create
FillArm(c) ==
    CASE c.tag = "None"  -> "none\" />"
      [] c.tag = "Black" -> "black\" />"
      [] c.tag = "Blue"  -> "blue\" />"
      [] c.tag = "Green" -> "green\" />"
      [] c.tag = "Red"   -> "red\" />"
      [] c.tag = "RGB"   ->
            "rgb(" \o Dec(c.r) \o "," \o Dec(c.g) \o "," \o Dec(c.b) \o ")\" />"

Path_create(self) ==
    LET p1 == "" \o "<path d=\""
        p2 == PushRules(p1, self.rules)
        p3 == p2 \o "\" stroke=\""
        p4 == p3 \o StrokeArm(self.stroke)
        p5 == p4 \o ("stroke-width=\"" \o Dec(self.stroke_width) \o "\" fill=\"")
        p6 == p5 \o FillArm(self.fill)
    IN  p6

\* faulty variant: the raw form separates the rules with a space
RECURSIVE PushRulesSpaced(_, _)
PushRulesSpaced(acc, rules) ==
    IF rules = <<>> THEN acc
    ELSE PushRulesSpaced(acc \o Head(rules) \o " ", Tail(rules))

Path_create_raw_spaced(self) == PushRulesSpaced("", self.rules)

Path_create_raw(self) == PushRules("", self.rules)

(***************************************************************************)
(* impl MinSVG                                                             *)
(***************************************************************************)
MinSVG_new(viewbox) ==
    [viewbox |-> viewbox, xmlns |-> <<>>, paths |-> <<>>, background |-> ColorNone]

MinSVG_set_xmlns(self, xmlns) == [self EXCEPT !.xmlns = <<xmlns>>]
MinSVG_set_background_color(self, color) == [self EXCEPT !.background = color]
\* faulty variant: add_path inserts the path before the attached ones
MinSVG_add_path_front(self, p) == [self EXCEPT !.paths = <<p>> \o @]
MinSVG_add_path(self, p) == [self EXCEPT !.paths = VecPush(@, p)]

\* faulty variant: the opening tag ignores the namespace override
OpenTag_default_only(self) ==
    "<svg viewBox=\"" \o Dec(self.viewbox[1]) \o " " \o Dec(self.viewbox[2])
        \o " " \o Dec(self.viewbox[3]) \o " " \o Dec(self.viewbox[4])
        \o "\" xmlns=\"http://www.w3.org/2000/svg\">"

\* match &self.xmlns of MinSVG::create
OpenTag(self) ==
    IF self.xmlns = <<>>
    THEN "<svg viewBox=\"" \o Dec(self.viewbox[1]) \o " " \o Dec(self.viewbox[2])
            \o " " \o Dec(self.viewbox[3]) \o " " \o Dec(self.viewbox[4])
            \o "\" xmlns=\"http://www.w3.org/2000/svg\">"
    ELSE "<svg viewBox=\"" \o Dec(self.viewbox[1]) \o " " \o Dec(self.viewbox[2])
            \o " " \o Dec(self.viewbox[3]) \o " " \o Dec(self.viewbox[4])
            \o "\" xmlns=\"" \o self.xmlns[1] \o "\">"

\* format!("<rect width=\"{}\" height=\"{}\" style=\"fill:{}\" />", w, h, name)
RectNamed(w, h, name) ==
    "<rect width=\"" \o Dec(w) \o "\" height=\"" \o Dec(h)
        \o "\" style=\"fill:" \o name \o "\" />"

\* faulty variant: background None is rendered as a rect filled with none
BackgroundArm_none_rect(self) ==
    LET c == self.background
        w == self.viewbox[3]
        h == self.viewbox[4]
    IN  CASE c.tag = "None"  -> RectNamed(w, h, "none")
          [] c.tag = "Black" -> RectNamed(w, h, "black")
          [] c.tag = "Blue"  -> RectNamed(w, h, "blue")
          [] c.tag = "Green" -> RectNamed(w, h, "green")
          [] c.tag = "Red"   -> RectNamed(w, h, "red")
          [] c.tag = "RGB"   ->
                "<rect width=\"" \o Dec(w) \o "\" height=\"" \o Dec(h)
                    \o "\" style=\"fill:rgb(" \o Dec(c.r) \o "," \o Dec(c.g)
                    \o "," \o Dec(c.b) \o ")\" />"

\* match &self.background of MinSVG::create
BackgroundArm(self) ==
    LET c == self.background
        w == self.viewbox[3]
        h == self.viewbox[4]
    IN  CASE c.tag = "None"  -> ""
          [] c.tag = "Black" -> RectNamed(w, h, "black")
          [] c.tag = "Blue"  -> RectNamed(w, h, "blue")
          [] c.tag = "Green" -> RectNamed(w, h, "green")
          [] c.tag = "Red"   -> RectNamed(w, h, "red")
          [] c.tag = "RGB"   ->
                "<rect width=\"" \o Dec(w) \o "\" height=\"" \o Dec(h)
                    \o "\" style=\"fill:rgb(" \o Dec(c.r) \o "," \o Dec(c.g)
                    \o "," \o Dec(c.b) \o ")\" />"

\* match &self.background of MinSVG::create_raw
BackgroundArmRaw(self) ==
    LET c == self.background
        w == self.viewbox[3]
        h == self.viewbox[4]
    IN  CASE c.tag = "None"  -> ""
          [] c.tag = "Black" -> RectNamed(w, h, "black")
          [] c.tag = "Blue"  -> RectNamed(w, h, "blue")
          [] c.tag = "Green" -> RectNamed(w, h, "green")
          [] c.tag = "Red"   -> RectNamed(w, h, "red")
          [] c.tag = "RGB"   ->
                "<rect width=\"" \o Dec(w) \o "\" height=\"" \o Dec(h)
                    \o "\" style=\"fill:rgb(" \o Dec(c.r) \o "," \o Dec(c.g)
                    \o "," \o Dec(c.b) \o ")\" />"

\* for path in &mut self.paths { svg.push_str(&*path.create()) }, from acc
RECURSIVE PushPaths(_, _)
PushPaths(acc, paths) ==
    IF paths = <<>> THEN acc
    ELSE PushPaths(acc \o Path_create(Head(paths)), Tail(paths))

MinSVG_create(self) ==
    LET s1 == "" \o OpenTag(self)
        s2 == s1 \o BackgroundArm(self)
        s3 == PushPaths(s2, self.paths)
        s4 == s3 \o "</svg>"
    IN  s4

\* faulty variant: the raw form leaves the closing tag out as well
MinSVG_create_raw_unclosed(self) ==
    LET s1 == "" \o BackgroundArmRaw(self)
        s2 == PushPaths(s1, self.paths)
    IN  s2

MinSVG_create_raw(self) ==
    LET s1 == "" \o BackgroundArmRaw(self)
        s2 == PushPaths(s1, self.paths)
        s3 == s2 \o "</svg>"
    IN  s3

(***************************************************************************)
(* The program: one MinSVG built from viewbox_arg, Paths built one at a    *)
(* time and moved into it, serializers called at any point.                *)
(***************************************************************************)
Call(op, arg) == [op |-> op, arg |-> arg]
Unit == <<>>

Init ==
    /\ viewbox_arg \in ViewBoxes
    /\ svg = MinSVG_new(viewbox_arg)
    /\ path = Moved
    /\ last = Call("MinSVG::new", viewbox_arg)
    /\ ret = Unit
    /\ calls = 0

\* a Path method that mutates the receiver and returns ()
PathCall(op, arg, after) ==
    /\ path # Moved
    /\ calls < MaxCalls
    /\ path' = after
    /\ last' = Call(op, arg)
    /\ ret' = Unit
    /\ calls' = calls + 1
    /\ UNCHANGED <<viewbox_arg, svg>>

\* a MinSVG method that mutates the receiver and returns ()
SvgCall(op, arg, after) ==
    /\ calls < MaxCalls
    /\ svg' = after
    /\ last' = Call(op, arg)
    /\ ret' = Unit
    /\ calls' = calls + 1
    /\ UNCHANGED <<viewbox_arg, path>>

new ==
    /\ path' = Path_new
    /\ last' = Call("Path::new", <<>>)
    /\ ret' = Unit
    /\ UNCHANGED <<viewbox_arg, svg, calls>>

set_stroke_color(colors) ==
    \E color \in colors :
        PathCall("set_stroke_color", color, Path_set_stroke_color(path, color))

set_stroke_width(widths) ==
    \E width \in widths :
        PathCall("set_stroke_width", width, Path_set_stroke_width(path, width))

set_fill_color(colors) ==
    \E color \in colors :
        PathCall("set_fill_color", color, Path_set_fill_color(path, color))

move_to ==
    \E pos \in MovePoints : PathCall("move_to", pos, Path_move_to(path, pos))

line_to ==
    \E pos \in LinePoints : PathCall("line_to", pos, Path_line_to(path, pos))

bezier ==
    \E points \in BezierPoints :
        PathCall("bezier", points, Path_bezier(path, points))

close_path == PathCall("close_path", <<>>, Path_close_path(path))

undo == PathCall("undo", <<>>, Path_undo(path))

add_rule_raw(rules) ==
    \E rule \in rules :
        PathCall("add_rule_raw", rule, Path_add_rule_raw(path, rule))

create ==
    /\ path # Moved
    /\ ret' = <<Path_create(path)>>
    /\ last' = Call("Path::create", <<>>)
    /\ UNCHANGED <<viewbox_arg, svg, path, calls>>

create_raw ==
    /\ path # Moved
    /\ ret' = <<Path_create_raw(path)>>
    /\ last' = Call("Path::create_raw", <<>>)
    /\ UNCHANGED <<viewbox_arg, svg, path, calls>>

set_xmlns ==
    \E xmlns \in Namespaces :
        SvgCall("set_xmlns", xmlns, MinSVG_set_xmlns(svg, xmlns))

set_background_color ==
    \E color \in Color :
        SvgCall("set_background_color", color,
                MinSVG_set_background_color(svg, color))

\* svg.add_path(path) moves the Path out of the program's variable
add_path ==
    /\ path # Moved
    /\ calls < MaxCalls
    /\ svg' = MinSVG_add_path(svg, path)
    /\ path' = Moved
    /\ last' = Call("add_path", path)
    /\ ret' = Unit
    /\ calls' = calls + 1
    /\ UNCHANGED viewbox_arg

\* faulty variant: create drains the attached paths while serializing them
svg_create_draining ==
    /\ ret' = <<MinSVG_create(svg)>>
    /\ last' = Call("MinSVG::create", <<>>)
    /\ svg' = [svg EXCEPT !.paths = <<>>]
    /\ UNCHANGED <<viewbox_arg, path, calls>>

svg_create ==
    /\ ret' = <<MinSVG_create(svg)>>
    /\ last' = Call("MinSVG::create", <<>>)
    /\ UNCHANGED <<viewbox_arg, svg, path, calls>>

svg_create_raw ==
    /\ ret' = <<MinSVG_create_raw(svg)>>
    /\ last' = Call("MinSVG::create_raw", <<>>)
    /\ UNCHANGED <<viewbox_arg, svg, path, calls>>

\* A program that builds Paths and attaches them to its document.
Next ==
    \/ new
    \/ set_stroke_color(FewColors)
    \/ set_stroke_width(FewWidths)
    \/ set_fill_color(FewColors)
    \/ move_to
    \/ line_to
    \/ bezier
    \/ close_path
    \/ undo
    \/ add_rule_raw(FewRawRules)
    \/ create
    \/ create_raw
    \/ set_xmlns
    \/ set_background_color
    \/ add_path
    \/ svg_create
    \/ svg_create_raw

Spec == Init /\ [][Next]_vars

\* A program that only builds one Path at a time, in every color.
NextPath ==
    \/ new
    \/ set_stroke_color(Color)
    \/ set_stroke_width(Widths)
    \/ set_fill_color(Color)
    \/ move_to
    \/ line_to
    \/ bezier
    \/ close_path
    \/ undo
    \/ add_rule_raw(RawRules)
    \/ create
    \/ create_raw

SpecPath == Init /\ [][NextPath]_vars

(***************************************************************************)
(* Helpers of the properties                                               *)
(***************************************************************************)
Last(v) == v[Len(v)]
Front(v) == SubSeq(v, 1, Len(v) - 1)

\* t occurs in s as a substring
Contains(s, t) ==
    \E i \in 1..(Len(s) - Len(t) + 1) : SubSeq(s, i, i + Len(t) - 1) = t

\* s ends with t
EndsWith(s, t) ==
    Len(s) >= Len(t) /\ SubSeq(s, Len(s) - Len(t) + 1, Len(s)) = t

\* every Path the program holds: the one under construction and the attached
HeldPaths ==
    (IF path = Moved THEN {} ELSE {path})
        \cup {svg.paths[i] : i \in DOMAIN svg.paths}

\* the rendering of a color as an attribute value
ColorAttr(c) ==
    IF c.tag = "None" THEN "none"
    ELSE IF c.tag = "Black" THEN "black"
    ELSE IF c.tag = "Blue" THEN "blue"
    ELSE IF c.tag = "Green" THEN "green"
    ELSE IF c.tag = "Red" THEN "red"
    ELSE "rgb(" \o Dec(c.r) \o "," \o Dec(c.g) \o "," \o Dec(c.b) \o ")"

\* the fragments joined in insertion order with no separator
RECURSIVE Joined(_)
Joined(rules) ==
    IF Len(rules) = 0 THEN "" ELSE Joined(Front(rules)) \o Last(rules)

PathElement(p) ==
    "<path d=\"" \o Joined(p.rules) \o "\" stroke=\"" \o ColorAttr(p.stroke)
        \o "\" stroke-width=\"" \o Dec(p.stroke_width)
        \o "\" fill=\"" \o ColorAttr(p.fill) \o "\" />"

DAttribute(s) ==
    LET from == Len("<path d=\"") + 1
        to == CHOOSE i \in from..Len(s) :
                 /\ SubSeq(s, i, i) = "\""
                 /\ \A j \in from..(i - 1) : SubSeq(s, j, j) # "\""
    IN  SubSeq(s, from, to - 1)

C2_Original ==
    \A p \in HeldPaths : Path_create_raw(p) = DAttribute(Path_create(p))

(***************************************************************************)
(* C2 amended: Path::create is <path d=" followed by Path::create_raw      *)
(* followed by " stroke=... for every Path, and create_raw equals the      *)
(* extracted d attribute whenever no held rule contains a double quote.    *)
(***************************************************************************)
C2_CreateRawIsDAttribute ==
    \A p \in HeldPaths :
        LET raw == Path_create_raw(p)
            full == Path_create(p)
            n == Len("<path d=\"") + Len(raw)
        IN  /\ SubSeq(full, 1, n) = "<path d=\"" \o raw
            /\ SubSeq(full, n + 1, n + Len("\" stroke=\"")) = "\" stroke=\""
            /\ full = "<path d=\"" \o raw \o "\" stroke=\"" \o ColorAttr(p.stroke)
                        \o "\" stroke-width=\"" \o Dec(p.stroke_width)
                        \o "\" fill=\"" \o ColorAttr(p.fill) \o "\" />"
            /\ ~Contains(raw, "\"") => raw = DAttribute(full)
            /\ last.op = "Path::create_raw" /\ p = path => ret = <<raw>>

\* create_raw has returned for a Path holding a generated and a raw rule
C2_Witness ==
    /\ last.op = "Path::create_raw"
    /\ path.rules = <<"L 100 100 ", "a 1 1 ">>
    /\ ret = <<"L 100 100 a 1 1 ">>

(***************************************************************************)
(* C3: undo removes exactly the most recently appended rule: any rule      *)
(* call followed by undo gives back the Path as it was, undo changes       *)
(* nothing but the end of the rule sequence, and undo on an empty rule     *)
(* sequence is a no-op after which create returns what it returned before. *)
(***************************************************************************)
C3_State ==
    \A p \in HeldPaths :
        /\ \A pos \in MovePoints : Path_undo(Path_move_to(p, pos)) = p
        /\ \A pos \in LinePoints : Path_undo(Path_line_to(p, pos)) = p
        /\ \A points \in BezierPoints : Path_undo(Path_bezier(p, points)) = p
        /\ Path_undo(Path_close_path(p)) = p
        /\ \A rule \in RawRules : Path_undo(Path_add_rule_raw(p, rule)) = p
        /\ p.rules # <<>> => Path_undo(p) = [p EXCEPT !.rules = Front(p.rules)]
        /\ p.rules = <<>> =>
              Path_undo(p) = p /\ Path_create(Path_undo(p)) = Path_create(p)

C3_UndoRemovesLast ==
    [][ /\ C3_State
        /\ last'.op = "undo" =>
              /\ path.rules # <<>> => path' = [path EXCEPT !.rules = Front(path.rules)]
              /\ path.rules = <<>> =>
                    path' = path /\ Path_create(path') = Path_create(path)
              /\ svg' = svg ]_vars

\* undo has just removed the second of two rules
C3_Witness ==
    /\ last.op = "undo"
    /\ calls = 3
    /\ path.rules = <<"M 0 0 ">>

(***************************************************************************)
(* The document as the claims describe it                                  *)
(***************************************************************************)
DocNamespace ==
    IF svg.xmlns = <<>> THEN "http://www.w3.org/2000/svg" ELSE svg.xmlns[1]

DocOpenTag ==
    "<svg viewBox=\"" \o Dec(viewbox_arg[1]) \o " " \o Dec(viewbox_arg[2]) \o " "
        \o Dec(viewbox_arg[3]) \o " " \o Dec(viewbox_arg[4])
        \o "\" xmlns=\"" \o DocNamespace \o "\">"

DocRect ==
    IF svg.background = ColorNone THEN ""
    ELSE "<rect width=\"" \o Dec(viewbox_arg[3]) \o "\" height=\""
            \o Dec(viewbox_arg[4]) \o "\" style=\"fill:"
            \o ColorAttr(svg.background) \o "\" />"

\* the Path::create outputs of the first n attached paths, concatenated
RECURSIVE DocPaths(_)
DocPaths(n) ==
    IF n = 0 THEN "" ELSE DocPaths(n - 1) \o Path_create(svg.paths[n])

(***************************************************************************)
(* C4 as stated: with background Color::None neither MinSVG::create nor    *)
(* MinSVG::create_raw returns text containing <rect, whatever the          *)
(* namespace override and the attached paths' rules are.                   *)
(***************************************************************************)
C4_Original ==
    svg.background = ColorNone =>
        /\ ~Contains(MinSVG_create(svg), "<rect")
        /\ ~Contains(MinSVG_create_raw(svg), "<rect")

(***************************************************************************)
(* C4 amended: with background Color::None no background rectangle is      *)
(* emitted: <rect occurs in what create returns only if the namespace      *)
(* override or the concatenated rules of an attached path contain it, and  *)
(* in what create_raw returns only if the concatenated rules of an         *)
(* attached path contain it.                                               *)
(***************************************************************************)
C4_NoBackgroundRect ==
    svg.background = ColorNone =>
        LET inRules == \E i \in DOMAIN svg.paths :
                          Contains(Path_create_raw(svg.paths[i]), "<rect")
            inNamespace == svg.xmlns # <<>> /\ Contains(svg.xmlns[1], "<rect")
        IN  /\ last.op = "MinSVG::create" /\ Contains(ret[1], "<rect") =>
                  inRules \/ inNamespace
            /\ last.op = "MinSVG::create_raw" /\ Contains(ret[1], "<rect") =>
                  inRules

\* create has returned for a document without background that has a
\* namespace override and an attached path with a rule
C4_Witness ==
    /\ last.op = "MinSVG::create"
    /\ svg.background = ColorNone
    /\ svg.xmlns = <<"Some namespace">>
    /\ Len(svg.paths) = 1
    /\ svg.paths[1].rules = <<"M 0 0 ">>
    /\ ~Contains(ret[1], "<rect")

(***************************************************************************)
(* C5: MinSVG::create returns exactly the opening tag built from the view  *)
(* box given to MinSVG::new and the namespace (the most recent set_xmlns   *)
(* argument, or the default literal when xmlns is unset as it is after     *)
(* MinSVG::new), then the background rect built from the view box's width  *)
(* and height (nothing when the background is None), then the attached     *)
(* paths' Path::create outputs in order, then </svg>.                      *)
(***************************************************************************)
C5_DocumentFormat ==
    /\ last.op = "MinSVG::create" =>
          ret = <<DocOpenTag \o DocRect \o DocPaths(Len(svg.paths)) \o "</svg>">>
    /\ last.op = "set_xmlns" => DocNamespace = last.arg
    /\ last.op = "MinSVG::new" => DocNamespace = "http://www.w3.org/2000/svg"

\* create has returned for a document with an RGB background, a namespace
\* override and one attached path
C5_Witness ==
    /\ last.op = "MinSVG::create"
    /\ svg.background = RGB(10, 100, 50)
    /\ svg.xmlns = <<"Some namespace">>
    /\ Len(svg.paths) = 1
    /\ ret = <<"<svg viewBox=\"5 7 500 30\" xmlns=\"Some namespace\"><rect width=\"500\" height=\"30\" style=\"fill:rgb(10,100,50)\" /><path d=\"M 0 0 \" stroke=\"none\" stroke-width=\"0\" fill=\"none\" /></svg>">>

(***************************************************************************)
(* C6: what MinSVG::create_raw returns, with the opening tag put before    *)
(* it, is what MinSVG::create returns on the same document; it ends with   *)
(* </svg> and it is the same for any other namespace override and any      *)
(* other min-x and min-y of the view box.                                  *)
(***************************************************************************)
OtherHeaders ==
    {[xmlns |-> <<>>, min |-> <<0, 0>>],
     [xmlns |-> <<"Some namespace">>, min |-> <<100, 9>>],
     [xmlns |-> <<"<rect">>, min |-> <<5, 7>>]}

C6_RawIsCreateWithoutOpenTag ==
    last.op = "MinSVG::create_raw" =>
        /\ MinSVG_create(svg) = DocOpenTag \o ret[1]
        /\ EndsWith(ret[1], "</svg>")
        /\ \A other \in OtherHeaders :
              MinSVG_create_raw(
                  [svg EXCEPT !.xmlns = other.xmlns,
                              !.viewbox =
                                  <<other.min[1], other.min[2], @[3], @[4]>>])
                  = ret[1]

\* create_raw has returned for a document with an RGB background and an
\* attached path with an RGB stroke
C6_Witness ==
    /\ last.op = "MinSVG::create_raw"
    /\ ret = <<"<rect width=\"500\" height=\"30\" style=\"fill:rgb(10,100,50)\" /><path d=\"\" stroke=\"rgb(10,100,50)\" stroke-width=\"0\" fill=\"none\" /></svg>">>

(***************************************************************************)
(* C7: paint order is append order: add_path puts the path after all       *)
(* previously attached ones, and in what create and create_raw return the  *)
(* background rect (if any) comes first, then the serialized block of      *)
(* each attached path at the offset where the previous block ends, then    *)
(* </svg>, whenever the background was set.                                *)
(***************************************************************************)
BlockAt(out, lead, i) ==
    LET start == Len(lead) + Len(DocRect) + Len(DocPaths(i - 1))
        block == Path_create(svg.paths[i])
    IN  SubSeq(out, start + 1, start + Len(block)) = block

InPaintOrder(out, lead) ==
    LET n == Len(svg.paths)
        end == Len(lead) + Len(DocRect) + Len(DocPaths(n))
    IN  /\ SubSeq(out, 1, Len(lead)) = lead
        /\ SubSeq(out, Len(lead) + 1, Len(lead) + Len(DocRect)) = DocRect
        /\ \A i \in 1..n : BlockAt(out, lead, i)
        /\ SubSeq(out, end + 1, Len(out)) = "</svg>"

C7_PaintOrder ==
    /\ last.op = "MinSVG::create" => InPaintOrder(ret[1], DocOpenTag)
    /\ last.op = "MinSVG::create_raw" => InPaintOrder(ret[1], "")
    /\ last.op = "add_path" => Last(svg.paths) = last.arg

\* create has returned for a document with two different paths whose
\* background was set
C7_Witness ==
    /\ last.op = "MinSVG::create"
    /\ Len(svg.paths) = 2
    /\ svg.paths[1] # svg.paths[2]
    /\ svg.background # ColorNone

(***************************************************************************)
(* C8: the four serializers leave the Path, the MinSVG and its attached    *)
(* paths unchanged; the same serializer called twice in a row returns the  *)
(* same string; MinSVG::create followed by MinSVG::create_raw returns      *)
(* strings that differ by the opening tag only.                            *)
(***************************************************************************)
Serializers ==
    {"Path::create", "Path::create_raw", "MinSVG::create", "MinSVG::create_raw"}

C8_SerializersOnlyRead ==
    [][ /\ last'.op \in Serializers =>
              path' = path /\ svg' = svg /\ viewbox_arg' = viewbox_arg
        /\ last'.op \in Serializers /\ last.op = last'.op => ret' = ret
        /\ last.op = "MinSVG::create" /\ last'.op = "MinSVG::create_raw" =>
              ret[1] = DocOpenTag \o ret'[1]
        /\ last.op = "MinSVG::create_raw" /\ last'.op = "MinSVG::create" =>
              ret'[1] = DocOpenTag \o ret[1] ]_vars

\* a document serializer has returned for a document with a path with rules
C8_Witness ==
    /\ last.op = "MinSVG::create_raw"
    /\ Len(svg.paths) = 1
    /\ Len(svg.paths[1].rules) = 2
    /\ path # Moved

(***************************************************************************)
(* C9: after Path::new the Path has no rules, stroke and fill None and     *)
(* stroke width 0, and create returns the empty path element; after        *)
(* MinSVG::new(v) the document has view box v, no namespace override,      *)
(* background None and no paths, and create returns the opening tag with   *)
(* the default namespace followed by </svg>.                               *)
(***************************************************************************)
C9_Defaults ==
    /\ last.op = "Path::new" =>
          /\ path.rules = <<>>
          /\ path.stroke = ColorNone
          /\ path.fill = ColorNone
          /\ path.stroke_width = 0
          /\ Path_create(path) =
                "<path d=\"\" stroke=\"none\" stroke-width=\"0\" fill=\"none\" />"
    /\ last.op = "MinSVG::new" =>
          /\ svg.viewbox = last.arg
          /\ svg.viewbox = viewbox_arg
          /\ svg.xmlns = <<>>
          /\ svg.background = ColorNone
          /\ svg.paths = <<>>
          /\ MinSVG_create(svg) =
                "<svg viewBox=\"" \o Dec(last.arg[1]) \o " " \o Dec(last.arg[2])
                    \o " " \o Dec(last.arg[3]) \o " " \o Dec(last.arg[4])
                    \o "\" xmlns=\"http://www.w3.org/2000/svg\"></svg>"

\* a second Path has been constructed after a styled one was attached
C9_Witness ==
    /\ last.op = "Path::new"
    /\ Len(svg.paths) = 1
    /\ svg.paths[1].stroke # ColorNone
    /\ svg.paths[1].rules # <<>>

(***************************************************************************)
(* C10: every mutator changes only the field it names and the last write   *)
(* wins: the three Path setters overwrite their own field; the rule calls  *)
(* and undo change only the end of the rule sequence; set_xmlns and        *)
(* set_background_color overwrite their own field; add_path appends one    *)
(* path and leaves the attached ones alone; the view box stays the one     *)
(* given to MinSVG::new.                                                   *)
(***************************************************************************)
RuleCalls == {"move_to", "line_to", "bezier", "close_path", "add_rule_raw"}

C10_Frames ==
    [][ /\ last'.op = "set_stroke_color" =>
              path' = [path EXCEPT !.stroke = last'.arg] /\ svg' = svg
        /\ last'.op = "set_stroke_width" =>
              path' = [path EXCEPT !.stroke_width = last'.arg] /\ svg' = svg
        /\ last'.op = "set_fill_color" =>
              path' = [path EXCEPT !.fill = last'.arg] /\ svg' = svg
        /\ last'.op \in RuleCalls =>
              /\ path' = [path EXCEPT !.rules = path'.rules]
              /\ Len(path'.rules) = Len(path.rules) + 1
              /\ Front(path'.rules) = path.rules
              /\ svg' = svg
        /\ last'.op = "undo" =>
              /\ path' = [path EXCEPT !.rules = path'.rules]
              /\ Len(path'.rules) >= Len(path.rules) - 1
              /\ path'.rules = SubSeq(path.rules, 1, Len(path'.rules))
              /\ svg' = svg
        /\ last'.op = "set_xmlns" =>
              svg' = [svg EXCEPT !.xmlns = <<last'.arg>>] /\ path' = path
        /\ last'.op = "set_background_color" =>
              svg' = [svg EXCEPT !.background = last'.arg] /\ path' = path
        /\ last'.op = "add_path" =>
              /\ svg' = [svg EXCEPT !.paths = svg'.paths]
              /\ Len(svg'.paths) = Len(svg.paths) + 1
              /\ Front(svg'.paths) = svg.paths
              /\ Last(svg'.paths) = path
        /\ svg.viewbox = viewbox_arg
        /\ svg'.viewbox = viewbox_arg
        /\ viewbox_arg' = viewbox_arg ]_vars

\* a stroke color has just been written on a Path that already has a fill
\* and a rule, as the fourth call
C10_Witness ==
    /\ last.op = "set_stroke_color"
    /\ calls = 4
    /\ path.stroke = ColorBlack
    /\ path.fill = RGB(10, 100, 50)
    /\ Len(path.rules) = 1

====
